---- MODULE Spec2Model ----
(***************************************************************************)
(* Listing-submission workflow of the marketplace front end:               *)
(* frontend/src/pages/Profile/components/ListingForm.tsx (the form with    *)
(* categories, lines 1-311, and the form without categories, lines         *)
(* 312-453).                                                               *)
(*                                                                         *)
(* Strings whose characters the code inspects (title, price, category      *)
(* names) are sequences of one-character strings; the description is a     *)
(* sequence too, since only its length is read.  The image URL is opaque.  *)
(***************************************************************************)
EXTENDS Integers, Sequences, FiniteSets, TLC

\* ------------------------------------------------------------- bounds

\* Submit actions (clicks on Submit) per behaviour.
MaxAttempts == 1

\* Field edits (handleChange) per behaviour.
MaxEdits == 1

\* ------------------------------------------------- program constants

\* description.length < 10
MinDescription == 10

\* description.length > 150
MaxDescription == 150

\* title.length > 20
MaxTitle == 20

\* ------------------------------------------------------------ strings

LowerCase == <<"a","b","c","d","e","f","g","h","i","j","k","l","m",
               "n","o","p","q","r","s","t","u","v","w","x","y","z">>

UpperCase == <<"A","B","C","D","E","F","G","H","I","J","K","L","M",
               "N","O","P","Q","R","S","T","U","V","W","X","Y","Z">>

Digits == {"0","1","2","3","4","5","6","7","8","9"}

WhiteSpace == {" "}

\* String.prototype.toUpperCase on one character.
ToUpperCase(ch) ==
  IF \E i \in 1..Len(LowerCase) : LowerCase[i] = ch
  THEN UpperCase[CHOOSE i \in 1..Len(LowerCase) : LowerCase[i] = ch]
  ELSE ch

\* String.prototype.toLowerCase on one character.
ToLowerCase(ch) ==
  IF \E i \in 1..Len(UpperCase) : UpperCase[i] = ch
  THEN LowerCase[CHOOSE i \in 1..Len(UpperCase) : UpperCase[i] = ch]
  ELSE ch

\* A string of n copies of ch.
Repeat(ch, n) == [i \in 1..n |-> ch]

\* category.name.charAt(0).toUpperCase() + category.name.slice(1)
Capitalize(name) ==
  IF name = <<>> THEN <<>>
  ELSE <<ToUpperCase(name[1])>> \o SubSeq(name, 2, Len(name))

\* ------------------------------------------------- Number(price), isNaN

\* The string without its leading and trailing white space.
RECURSIVE TrimLeft(_)
TrimLeft(s) ==
  IF s # <<>> /\ s[1] \in WhiteSpace THEN TrimLeft(Tail(s)) ELSE s

RECURSIVE TrimRight(_)
TrimRight(s) ==
  IF s # <<>> /\ s[Len(s)] \in WhiteSpace
  THEN TrimRight(SubSeq(s, 1, Len(s) - 1)) ELSE s

Trim(s) == TrimRight(TrimLeft(s))

AllDigits(s) == \A i \in 1..Len(s) : s[i] \in Digits

\* digits, digits "." digits?, "." digits  (no exponent).
IsUnsignedDecimal(s) ==
  \/ s # <<>> /\ AllDigits(s)
  \/ \E k \in 1..Len(s) :
       /\ s[k] = "."
       /\ AllDigits(SubSeq(s, 1, k - 1))
       /\ AllDigits(SubSeq(s, k + 1, Len(s)))
       /\ Len(s) > 1

\* An unsigned decimal with an optional exponent part.
IsDecimalWithExponent(s) ==
  \/ IsUnsignedDecimal(s)
  \/ \E k \in 2..Len(s) :
       /\ s[k] \in {"e", "E"}
       /\ IsUnsignedDecimal(SubSeq(s, 1, k - 1))
       /\ LET e == SubSeq(s, k + 1, Len(s))
              d == IF e # <<>> /\ e[1] \in {"+", "-"} THEN Tail(e) ELSE e
          IN  d # <<>> /\ AllDigits(d)

InfinityLiteral == <<"I","n","f","i","n","i","t","y">>

\* StrDecimalLiteral of the StringToNumber grammar.
IsStrDecimalLiteral(s) ==
  LET u == IF s # <<>> /\ s[1] \in {"+", "-"} THEN Tail(s) ELSE s
  IN  u = InfinityLiteral \/ IsDecimalWithExponent(u)

HexDigits == Digits \cup {"a","b","c","d","e","f","A","B","C","D","E","F"}

\* 0x.., 0o.., 0b.. (unsigned) of the StringToNumber grammar.
IsNonDecimalIntegerLiteral(s) ==
  /\ Len(s) > 2
  /\ s[1] = "0"
  /\ LET ds == SubSeq(s, 3, Len(s)) IN
       \/ s[2] \in {"x", "X"} /\ \A i \in 1..Len(ds) : ds[i] \in HexDigits
       \/ s[2] \in {"o", "O"} /\ \A i \in 1..Len(ds) : ds[i] \in {"0","1","2","3","4","5","6","7"}
       \/ s[2] \in {"b", "B"} /\ \A i \in 1..Len(ds) : ds[i] \in {"0","1"}

\* isNaN(Number(price)): Number gives NaN exactly for a string that, trimmed,
\* is neither empty (0) nor a numeric literal.
IsNaNNumber(s) ==
  LET t == Trim(s)
  IN  ~(t = <<>> \/ IsStrDecimalLiteral(t) \/ IsNonDecimalIntegerLiteral(t))

\* ------------------------------------------------------ the data model

\* type Category = { category_id, name }
Cat(id, name) == [category_id |-> id, name |-> name]

NameTools == <<"T","o","o","l","s">>

NameToolsLower == <<"t","o","o","l","s">>

NameToolsUpper == <<"T","O","O","L","S">>

NameGarden == <<"G","a","r","d","e","n">>

NameGardenLower == <<"g","a","r","d","e","n">>

\* The lists CategoriesSelector may hand to setSelectedCategories.
Selections ==
  { <<>>,
    <<Cat("c1", NameToolsLower)>>,
    <<Cat("c1", NameToolsLower), Cat("c3", NameGarden)>>,
    <<Cat("c2", NameToolsUpper), Cat("c3", NameGarden)>> }

\* What GET /api/categories may answer.
CategoryResponses ==
  { <<Cat("k1", NameTools), Cat("k2", NameGardenLower)>> }

TitleBike == <<"B","i","k","e">>

TitleBikeLower == <<"b","i","k","e">>

TitleDigit == <<"1","u","p">>

TitleLong == <<"B">> \o Repeat("i", MaxTitle)

Titles == { <<>>, TitleBike, TitleBikeLower, TitleDigit, TitleLong }

Prices == { <<>>, <<"a","b","c">>, <<"4","2">>, <<" ">> }

Descriptions ==
  { Repeat("x", n) : n \in {0, MinDescription - 1, MinDescription,
                            MaxDescription, MaxDescription + 1} }

ImageLoadable == "https://example.com/image.jpg"

ImageUnreachable == "https://example.com/missing.jpg"

ImageMalformed == "not a url"

Images == { "", ImageMalformed, ImageUnreachable, ImageLoadable }

\* The environment: which URLs parse, and which of those serve an image.
WellFormedUrl(url) == url \in {ImageUnreachable, ImageLoadable}

PointsToImage(url) == url = ImageLoadable

FieldNames == {"title", "price", "description", "image"}

FieldValues(name) ==
  CASE name = "title" -> Titles
    [] name = "price" -> Prices
    [] name = "description" -> Descriptions
    [] name = "image" -> Images

\* type FormData; the form a "create" page starts with.
EmptyFormData ==
  [title |-> <<>>, price |-> <<>>, description |-> <<>>, image |-> "",
   owner |-> "user1", categories |-> <<>>]

\* The form an "edit" page starts with: the stored listing.
StoredFormData ==
  [title |-> TitleBike, price |-> <<"4","2">>,
   description |-> Repeat("x", MinDescription), image |-> ImageLoadable,
   owner |-> "user1", categories |-> <<>>]

\* useState<MessageType>({ message: "", color: "" })
NoMessage == [message |-> "", color |-> ""]

\* useState({ show: false, modalType: "", info: "" })
NoModal == [show |-> FALSE, modalType |-> "", info |-> ""]

\* What the injected postListing / editListing may resolve with.
ListingResponses ==
  { [success |-> TRUE, message |-> "Created"],
    [success |-> FALSE, message |-> "Listing rejected"] }

\* ListingFormProps: the form (with or without categories), the method and
\* the optional callables the parent passes.
PropsChoices ==
  { [form |-> f, method |-> m.method, postListing |-> m.post, editListing |-> m.edit] :
      f \in {"categories", "plain"},
      m \in { [method |-> "POST", post |-> TRUE, edit |-> FALSE],
              [method |-> "PUT", post |-> FALSE, edit |-> TRUE],
              [method |-> "PATCH", post |-> TRUE, edit |-> TRUE] } }

\* The formData prop at mount.
InitialFormData == { EmptyFormData, StoredFormData }

\* ------------------------------------------------------------- messages

MsgFillAll == "Please fill in all fields"

MsgSelectCategory == "Please select at least one category"

MsgPriceNumber == "Price must be a number"

MsgImageInvalid == "Image URL is invalid"

MsgDescriptionShort == "Description must be at least 10 characters"

MsgDescriptionLong == "Description must be less than 150 characters"

MsgTitleCapital == "Title must start with a capital letter"

MsgTitleLong == "Title must be less than 20 characters"

MsgUnexpected == "An unexpected error has occurred"

\* No rule failed: validateForm goes on to the listing write.
Pass == "pass"

Red(text) == [message |-> text, color |-> "red"]

Green(text) == [message |-> text, color |-> "green"]

\* ---------------------------------------------------------------- state

\* ---------------------------------------------------------------------
\* The CategoryProducts page.

\* The category_id of the route.
CategoryIds == {"c1", "c2", "c3"}

\* What GET /api/categories/:id answers for the category: its name.
CategoryNameOf(id) ==
  CASE id = "c1" -> "Tools" [] id = "c2" -> "Garden" [] id = "c3" -> "Toys"

\* What response.json() of GET /api/products/category/:id may give: an
\* array of products, or the object of an error answer (response.ok is not
\* looked at).
ProductsBodies ==
  { [isArray |-> TRUE, items |-> <<>>],
    [isArray |-> TRUE, items |-> <<"p1">>],
    [isArray |-> TRUE, items |-> <<"p1", "p2">>],
    [isArray |-> FALSE, items |-> <<>>] }

\* The state of the component's first render, before its effect ran.
FirstRender(id, loggedIn) ==
  [category_id |-> id, isLoggedIn |-> loggedIn, mounted |-> FALSE,
   products |-> [isArray |-> TRUE, items |-> <<>>], categoryName |-> "",
   isLoading |-> FALSE, isError |-> FALSE,
   productsFetch |-> "none", nameFetch |-> "none", route |-> "category"]

\* No CategoryProducts page is on screen.
NoCategoryProducts ==
  [category_id |-> "", isLoggedIn |-> FALSE, mounted |-> FALSE,
   products |-> [isArray |-> TRUE, items |-> <<>>], categoryName |-> "",
   isLoading |-> FALSE, isError |-> FALSE,
   productsFetch |-> "none", nameFetch |-> "none", route |-> "profile"]

VARIABLES
  categoryProducts,    \* the CategoryProducts page: its state and fetches
  props,               \* the component's props (fixed at mount)
  formData,            \* the parent's formData state: the Draft
  selectedCategories,  \* useState<Category[]>([])
  categories,          \* useState<Category[]>([]): KnownCategories
  fetchState,          \* the mount-time GET /api/categories
  message,             \* useState<MessageType>
  modal,               \* useState modal
  attempts,            \* the validateForm calls, by order of the click
  edits                \* handleChange calls so far

vars ==
  <<categoryProducts, props, formData, selectedCategories, categories, fetchState, message,
    modal, attempts, edits>>

Attempts == 1..MaxAttempts

\* The validateForm calls a behaviour has room for.
Calls == DOMAIN attempts

\* The write has not settled.
NoResult == [settled |-> "no", success |-> FALSE, message |-> ""]

\* A validateForm call that has not been made.
\*   formData, sel : the formData object and selectedCategories the call's
\*                   closure holds (those of the render the click came from)
\*   known         : the categories state that closure holds
\*   live          : that object still is the parent's formData state
\*   posted        : newCategories of handleSubmitNewCategory
\*   requests      : the POST /api/categories of the call, one per entry of
\*                   posted, each with its outcome
\*   verdict       : "" before the rules ran, then the failed rule's text or Pass
\*   write         : the listing write the call made
\*   result        : what that write settled with
NoAttempt ==
  [pc |-> "idle", formData |-> EmptyFormData, sel |-> <<>>, known |-> <<>>,
   live |-> FALSE, posted |-> <<>>, requests |-> <<>>, verdict |-> "", write |-> "none",
   result |-> NoResult]

Init ==
  /\ props \in PropsChoices
  /\ formData \in InitialFormData
  /\ selectedCategories = <<>>
  /\ categories = <<>>
  /\ fetchState = IF props.form = "categories" THEN "pending" ELSE "none"
  /\ message = NoMessage
  /\ modal = NoModal
  /\ attempts = [a \in Attempts |-> NoAttempt]
  /\ edits = 0
  /\ categoryProducts = NoCategoryProducts

\* ------------------------------------------------- the Category Reconciler

\* categories.some((c) => c.name === capitalizedCategoryName)
IsKnownCategory(category, known) ==
  \E k \in 1..Len(known) : known[k].name = Capitalize(category.name)

\* The filter with a comparison that ignores letter case in every position.
NewCategoriesIgnoringCase(selected, known) ==
  SelectSeq(selected, LAMBDA category :
    ~\E k \in 1..Len(known) :
       /\ Len(known[k].name) = Len(category.name)
       /\ \A j \in 1..Len(category.name) :
            ToLowerCase(known[k].name[j]) = ToLowerCase(category.name[j]))

\* The filter of a form that creates nothing while it knows no category.
NewCategoriesOnceLoaded(selected, known) ==
  IF known = <<>> THEN <<>>
  ELSE SelectSeq(selected, LAMBDA category : ~IsKnownCategory(category, known))

\* selectedCategories.filter(...) of handleSubmitNewCategory.
NewCategories(selected, known) ==
  SelectSeq(selected, LAMBDA category : ~IsKnownCategory(category, known))

\* How a POST /api/categories may end.
CreationOutcomes == {"ok", "not_ok", "network_error"}

\* postCategory without its try / catch: a failed creation rejects.
PostCategoryUncaught(outcome) ==
  IF outcome = "pending" THEN "pending"
  ELSE IF outcome = "ok" THEN "fulfilled" ELSE "rejected"

\* The promise postCategory returns, by the outcome of its fetch: the throw
\* for a response that is not ok, and a rejected fetch, are both caught and
\* logged, so the promise is fulfilled whatever the outcome.
PostCategory(outcome) ==
  IF outcome = "pending" THEN "pending" ELSE "fulfilled"

\* A form that adds a category it created to the categories it holds.
KnownWithCreated(known, category, outcome) ==
  IF outcome = "ok"
  THEN Append(known, [category EXCEPT !.name = Capitalize(category.name)])
  ELSE known

\* The categories state after a POST /api/categories for category settled:
\* postCategory neither calls setCategories nor fetches the categories again.
KnownAfterCreation(known, category, outcome) == known

\* Promise.race in the place of Promise.all: settled by the first to settle.
PromiseRace(states) ==
  IF \E i \in 1..Len(states) : states[i] = "rejected" THEN "rejected"
  ELSE IF \E i \in 1..Len(states) : states[i] = "fulfilled" THEN "fulfilled"
  ELSE "pending"

\* Promise.all over promises in the given states: rejected as soon as one
\* is, fulfilled once all are, pending otherwise.
PromiseAll(states) ==
  IF \E i \in 1..Len(states) : states[i] = "rejected" THEN "rejected"
  ELSE IF \A i \in 1..Len(states) : states[i] = "fulfilled" THEN "fulfilled"
  ELSE "pending"

\* The state of the Promise.all that handleSubmitNewCategory awaits.
Barrier(requests) ==
  PromiseAll([i \in 1..Len(requests) |-> PostCategory(requests[i])])

\* ------------------------------------------------------------ the Validator

\* img.complete right after img.src = url: true for an empty src and for an
\* image the browser already holds, false while the load is still ahead.
ImgComplete(url, cached) == url = "" \/ (PointsToImage(url) /\ cached)

\* isValidImageUrl is an async function: what the caller gets is a promise
\* (an object) of img.complete.
IsValidImageUrl(url, cached) ==
  [kind |-> "promise", value |-> ImgComplete(url, cached)]

\* ToBoolean of a value: an object is truthy.
ToBoolean(v) == IF v.kind = "boolean" THEN v.value ELSE TRUE

\* title && title[0] !== title[0].toUpperCase()
NotCapitalized(title) == title # <<>> /\ title[1] # ToUpperCase(title[1])

\* The rules of the form with categories without the category rule.
FirstFailureNoCategoryRule(fd, selected, isValidImg) ==
  IF fd.title = <<>> \/ fd.price = <<>> \/ fd.description = <<>> \/ fd.image = ""
    THEN MsgFillAll
  ELSE IF IsNaNNumber(fd.price) THEN MsgPriceNumber
  ELSE IF ~ToBoolean(isValidImg) THEN MsgImageInvalid
  ELSE IF Len(fd.description) < MinDescription THEN MsgDescriptionShort
  ELSE IF Len(fd.description) > MaxDescription THEN MsgDescriptionLong
  ELSE IF NotCapitalized(fd.title) THEN MsgTitleCapital
  ELSE IF Len(fd.title) > MaxTitle THEN MsgTitleLong
  ELSE Pass

\* The rules of the form with categories with the description bounds
\* compared by <= and >=.
FirstFailureOffByOne(fd, selected, isValidImg) ==
  IF fd.title = <<>> \/ fd.price = <<>> \/ fd.description = <<>> \/ fd.image = ""
    THEN MsgFillAll
  ELSE IF Len(selected) = 0 THEN MsgSelectCategory
  ELSE IF IsNaNNumber(fd.price) THEN MsgPriceNumber
  ELSE IF ~ToBoolean(isValidImg) THEN MsgImageInvalid
  ELSE IF Len(fd.description) <= MinDescription THEN MsgDescriptionShort
  ELSE IF Len(fd.description) >= MaxDescription THEN MsgDescriptionLong
  ELSE IF NotCapitalized(fd.title) THEN MsgTitleCapital
  ELSE IF Len(fd.title) > MaxTitle THEN MsgTitleLong
  ELSE Pass

\* The rules of the form without categories with a first rule that fails
\* only when all four fields are empty.
FirstFailurePlainAllEmpty(fd, isValidImg) ==
  IF fd.title = <<>> /\ fd.price = <<>> /\ fd.description = <<>> /\ fd.image = ""
    THEN MsgFillAll
  ELSE IF IsNaNNumber(fd.price) THEN MsgPriceNumber
  ELSE IF ~ToBoolean(isValidImg) THEN MsgImageInvalid
  ELSE IF Len(fd.description) < MinDescription THEN MsgDescriptionShort
  ELSE IF NotCapitalized(fd.title) THEN MsgTitleCapital
  ELSE Pass

\* The rules of validateForm in the form with categories, in the order of
\* its early returns: the text of the first one that fails, or Pass.
FirstFailure(fd, selected, isValidImg) ==
  IF fd.title = <<>> \/ fd.price = <<>> \/ fd.description = <<>> \/ fd.image = ""
    THEN MsgFillAll
  ELSE IF Len(selected) = 0 THEN MsgSelectCategory
  ELSE IF IsNaNNumber(fd.price) THEN MsgPriceNumber
  ELSE IF ~ToBoolean(isValidImg) THEN MsgImageInvalid
  ELSE IF Len(fd.description) < MinDescription THEN MsgDescriptionShort
  ELSE IF Len(fd.description) > MaxDescription THEN MsgDescriptionLong
  ELSE IF NotCapitalized(fd.title) THEN MsgTitleCapital
  ELSE IF Len(fd.title) > MaxTitle THEN MsgTitleLong
  ELSE Pass

\* The rules of validateForm in the form without categories.
FirstFailurePlain(fd, isValidImg) ==
  IF fd.title = <<>> \/ fd.price = <<>> \/ fd.description = <<>> \/ fd.image = ""
    THEN MsgFillAll
  ELSE IF IsNaNNumber(fd.price) THEN MsgPriceNumber
  ELSE IF ~ToBoolean(isValidImg) THEN MsgImageInvalid
  ELSE IF Len(fd.description) < MinDescription THEN MsgDescriptionShort
  ELSE IF NotCapitalized(fd.title) THEN MsgTitleCapital
  ELSE Pass

\* The assignment replacing the whole object: formData = { categories }.
AssignCategoriesOnly(fd, selected) ==
  [EmptyFormData EXCEPT !.owner = fd.owner, !.categories = selected]

\* formData.categories = selectedCategories
AssignCategories(fd, selected) == [fd EXCEPT !.categories = selected]

\* The listing write validateForm makes, by method and callables.
ListingWrite(p) ==
  IF p.method = "POST" /\ p.postListing THEN "post"
  ELSE IF p.method = "PUT" /\ p.editListing THEN "edit"
  ELSE "none"

\* The message the .then / .catch of a listing write sets.
WriteMessage(result) ==
  IF result.settled = "rejected" THEN Red(MsgUnexpected)
  ELSE IF result.success THEN Green(result.message)
  ELSE Red(result.message)

\* -------------------------------------------------------------- actions

\* fetchCategories (run once by useEffect) settles: setCategories(data), or
\* the modal of its catch.
FetchCategoriesSettle ==
  /\ fetchState = "pending"
  /\ \/ \E data \in CategoryResponses :
          /\ categories' = data
          /\ fetchState' = "done"
          /\ modal' = modal
     \/ /\ categories' = categories
        /\ fetchState' = "failed"
        /\ modal' = [show |-> TRUE, modalType |-> "Info",
                     info |-> "Failed to fetch categories"]
  /\ UNCHANGED <<categoryProducts, props, formData, selectedCategories, message, attempts, edits>>

\* CategoriesSelector calls setSelectedCategories.
SetSelectedCategories(selected) ==
  /\ props.form = "categories"
  /\ selected # selectedCategories
  /\ selectedCategories' = selected
  /\ UNCHANGED <<categoryProducts, props, formData, categories, fetchState, message, modal,
                 attempts, edits>>

\* handleChange: setFormData builds a new formData object, so the object
\* held by the calls in flight is no longer the parent's state.
HandleChange(name, value) ==
  /\ edits < MaxEdits
  /\ value # formData[name]
  /\ formData' = [formData EXCEPT ![name] = value]
  /\ message' = NoMessage
  /\ attempts' = [a \in Calls |-> [attempts[a] EXCEPT !.live = FALSE]]
  /\ edits' = edits + 1
  /\ UNCHANGED <<categoryProducts, props, selectedCategories, categories, fetchState, modal>>

\* validateForm of the form with categories from the line after
\* "await handleSubmitNewCategory()" on, for call a whose record is att:
\* the rules, then the assignment to formData.categories and the write.
ContinueValidateForm(a, att) ==
  \E cached \in BOOLEAN :
    LET fd == att.formData
        verdict == FirstFailure(fd, att.sel, IsValidImageUrl(fd.image, cached))
        write == ListingWrite(props)
    IN  IF verdict # Pass
        THEN /\ message' = Red(verdict)
             /\ formData' = formData
             /\ attempts' = [attempts EXCEPT ![a] =
                  [att EXCEPT !.pc = "done", !.verdict = verdict]]
        ELSE /\ formData' = IF att.live THEN AssignCategories(formData, att.sel)
                                         ELSE formData
             /\ message' = message
             /\ attempts' = [attempts EXCEPT ![a] =
                  [att EXCEPT !.pc = IF write = "none" THEN "done" ELSE "submitting",
                              !.verdict = Pass,
                              !.write = write]]

\* The next validateForm call.
NextAttempt == CHOOSE a \in Calls :
  attempts[a].pc = "idle" /\ \A b \in Calls : b < a => attempts[b].pc # "idle"

\* A click on Submit in the form with categories: validateForm up to its
\* first suspension.  handleSubmitNewCategory returns at once when there is
\* nothing to create, and the rest of validateForm then runs before any
\* other event; otherwise every postCategory has issued its request and the
\* call waits for Promise.all.
ValidateForm ==
  /\ props.form = "categories"
  /\ \E a \in Calls : attempts[a].pc = "idle"
  /\ LET a == NextAttempt
         new == NewCategories(selectedCategories, categories)
         att == [NoAttempt EXCEPT !.formData = formData,
                                  !.sel = selectedCategories,
                                  !.known = categories,
                                  !.live = TRUE,
                                  !.posted = new,
                                  !.requests = [i \in 1..Len(new) |-> "pending"]]
     IN  IF Len(new) = 0
         THEN ContinueValidateForm(a, att)
         ELSE /\ attempts' = [attempts EXCEPT ![a] = [att EXCEPT !.pc = "creating"]]
              /\ UNCHANGED <<formData, message>>
  /\ UNCHANGED <<categoryProducts, props, selectedCategories, categories, fetchState, modal, edits>>

\* One POST /api/categories of call a settles.  When that settles the
\* Promise.all the call waits for, handleSubmitNewCategory returns (through
\* its catch, with the modal, if the Promise.all rejected) and validateForm
\* goes on.
PostCategorySettle(a, i, outcome) ==
  /\ i \in 1..Len(attempts[a].requests)
  /\ attempts[a].requests[i] = "pending"
  /\ LET att == [attempts[a] EXCEPT !.requests[i] = outcome]
         all == Barrier(att.requests)
     IN  IF attempts[a].pc = "creating" /\ all # "pending"
         THEN /\ ContinueValidateForm(a, att)
              /\ modal' = IF all = "rejected"
                           THEN [show |-> TRUE, modalType |-> "Info",
                                 info |-> "Failed to create one or more categories"]
                           ELSE modal
         ELSE /\ attempts' = [attempts EXCEPT ![a] = att]
              /\ UNCHANGED <<formData, message, modal>>
  /\ categories' = KnownAfterCreation(categories, attempts[a].posted[i], outcome)
  /\ UNCHANGED <<categoryProducts, props, selectedCategories, fetchState, edits>>

\* postListing / editListing of call a settles: the .then or the .catch.
ListingSettle(a, result) ==
  /\ attempts[a].pc = "submitting"
  /\ message' = WriteMessage(result)
  /\ attempts' = [attempts EXCEPT ![a] =
       [attempts[a] EXCEPT !.pc = "done", !.result = result]]
  /\ UNCHANGED <<categoryProducts, props, formData, selectedCategories, categories, fetchState,
                 modal, edits>>

\* What a listing write may settle with.
WriteResults ==
  { [settled |-> "resolved", success |-> r.success, message |-> r.message] :
      r \in ListingResponses }
  \cup { [settled |-> "rejected", success |-> FALSE, message |-> ""] }

\* A submit of the form without categories: validateForm is synchronous.
\* postListing's promise is handled as in the other form; editListing is
\* called as a plain function and what it returns is dropped.
ValidateFormPlain ==
  /\ props.form = "plain"
  /\ \E a \in Calls : attempts[a].pc = "idle"
  /\ \E cached \in BOOLEAN, returned \in WriteResults :
       LET a == NextAttempt
           att == [NoAttempt EXCEPT !.formData = formData, !.live = TRUE]
           verdict ==
             FirstFailurePlain(formData, IsValidImageUrl(formData.image, cached))
           write == ListingWrite(props)
       IN  /\ returned.settled = "resolved"
           /\ IF verdict # Pass
              THEN /\ message' = Red(verdict)
                   /\ attempts' = [attempts EXCEPT ![a] =
                        [att EXCEPT !.pc = "done", !.verdict = verdict]]
              ELSE /\ message' = message
                   /\ attempts' = [attempts EXCEPT ![a] =
                        [att EXCEPT !.pc = IF write = "post" THEN "submitting"
                                                             ELSE "done",
                                    !.verdict = Pass,
                                    !.write = write,
                                    !.result = IF write = "edit" THEN returned
                                                                 ELSE NoResult]]
  /\ UNCHANGED <<categoryProducts, props, formData, selectedCategories, categories, fetchState,
                 modal, edits>>

\* The steps of the form and of its requests while the user edits no field.
NextSubmit ==
  \/ FetchCategoriesSettle
  \/ \E selected \in Selections : SetSelectedCategories(selected)
  \/ ValidateForm
  \/ ValidateFormPlain
  \/ \E a \in Calls : \E i \in 1..Len(attempts[a].requests) :
       \E outcome \in CreationOutcomes : PostCategorySettle(a, i, outcome)
  \/ \E a \in Calls : \E result \in WriteResults : ListingSettle(a, result)

Next ==
  \/ NextSubmit
  \/ \E name \in FieldNames : \E value \in FieldValues(name) :
       HandleChange(name, value)

\* The form with a user who selects categories, edits fields and submits.
Spec == Init /\ [][Next]_vars

\* The form with a user who selects categories and submits.
SpecSubmit == Init /\ [][NextSubmit]_vars

\* =============================================================== claims

\* What the claims say of a call, in their own terms.

\* The rules of the call ran.
Validated(att) == att.verdict # ""

\* A Validator rule failed.
RuleFailed(att) == att.verdict \notin {"", Pass}

\* The call issued its listing write.
WriteIssued(att) == att.write # "none"

\* The listing write came back with success = false, or rejected.
WriteFailed(att) ==
  \/ att.result.settled = "rejected"
  \/ att.result.settled = "resolved" /\ ~att.result.success

\* A creation request of the call failed.
SomeCreationFailed(att) ==
  \E i \in 1..Len(att.requests) : att.requests[i] \in {"not_ok", "network_error"}

\* A creation request of the call is in flight.
SomeCreationPending(att) ==
  \E i \in 1..Len(att.requests) : att.requests[i] = "pending"

\* Rule 4 as the specification states it: a well-formed URL of a loadable image.
ImageRuleHolds(url) == WellFormedUrl(url) /\ PointsToImage(url)

\* Rule 1: all four fields are filled in.
FieldsFilled(fd) ==
  fd.title # <<>> /\ fd.price # <<>> /\ fd.description # <<>> /\ fd.image # ""

\* The first violated rule in the order the specification fixes, rule 4
\* decided by the image itself.
SpecFirstFailure(fd, selected) ==
  IF ~FieldsFilled(fd) THEN MsgFillAll
  ELSE IF selected = <<>> THEN MsgSelectCategory
  ELSE IF IsNaNNumber(fd.price) THEN MsgPriceNumber
  ELSE IF ~ImageRuleHolds(fd.image) THEN MsgImageInvalid
  ELSE IF Len(fd.description) < MinDescription THEN MsgDescriptionShort
  ELSE IF Len(fd.description) > MaxDescription THEN MsgDescriptionLong
  ELSE IF fd.title[1] # ToUpperCase(fd.title[1]) THEN MsgTitleCapital
  ELSE IF Len(fd.title) > MaxTitle THEN MsgTitleLong
  ELSE Pass

\* C1: in the form with categories the listing write is never issued for a
\* Draft with no selected category or with a violated rule (filled fields,
\* numeric price, valid image URL, description of 10..150 characters,
\* capitalized title of at most 20 characters).
C1_NoWriteWhileInvalid ==
  \A a \in Attempts :
    (props.form = "categories" /\ WriteIssued(attempts[a])) =>
      LET fd == attempts[a].formData IN
        /\ attempts[a].sel # <<>>
        /\ FieldsFilled(fd)
        /\ ~IsNaNNumber(fd.price)
        /\ ImageRuleHolds(fd.image)
        /\ Len(fd.description) >= MinDescription
        /\ Len(fd.description) <= MaxDescription
        /\ fd.title[1] = ToUpperCase(fd.title[1])
        /\ Len(fd.title) <= MaxTitle

\* C2: the listing write of a call is issued only once every creation
\* request of that call has settled; none of them is in flight while the
\* write is.
C2_WriteAfterReconciliation ==
  \A a \in Attempts :
    WriteIssued(attempts[a]) => ~SomeCreationPending(attempts[a])

\* C2 witness: a listing write in flight after two creation requests of the
\* same call settled.
C2_Witness ==
  \E a \in Attempts :
    /\ attempts[a].pc = "submitting"
    /\ Len(attempts[a].requests) = 2
    /\ ~SomeCreationPending(attempts[a])

\* C3: a call that fails a Validator rule issues no network request at all,
\* neither a category creation nor a listing write.
C3_NoNetworkOnRuleFailure ==
  \A a \in Attempts :
    RuleFailed(attempts[a]) =>
      attempts[a].requests = <<>> /\ ~WriteIssued(attempts[a])

\* C4: a Draft that passes the rules before the image rule and whose image
\* is a malformed URL, or no loadable image, is rejected with "Image URL is
\* invalid" and not submitted.
C4_BadImageRejected ==
  \A a \in Attempts :
    LET fd == attempts[a].formData IN
      ( /\ Validated(attempts[a])
        /\ FieldsFilled(fd)
        /\ props.form = "categories" => attempts[a].sel # <<>>
        /\ ~IsNaNNumber(fd.price)
        /\ ~ImageRuleHolds(fd.image) )
      => attempts[a].verdict = MsgImageInvalid /\ ~WriteIssued(attempts[a])

\* Two names equal up to letter case, in every position.
SameIgnoringCase(n, m) ==
  Len(n) = Len(m) /\ \A j \in 1..Len(n) : ToLowerCase(n[j]) = ToLowerCase(m[j])

\* C5 as claimed: the creation requests of a call are, one each, for the
\* selected categories whose name matches no known name up to letter case.
C5_CreationSetIgnoringCase ==
  \A a \in Attempts :
    attempts[a].pc # "idle" =>
      /\ attempts[a].posted =
           SelectSeq(attempts[a].sel, LAMBDA c :
             \A k \in 1..Len(attempts[a].known) :
               ~SameIgnoringCase(attempts[a].known[k].name, c.name))
      /\ Len(attempts[a].requests) = Len(attempts[a].posted)

\* C5 as amended: the creation requests of a call are, one each, for the
\* selected categories whose name, with its first character upper-cased and
\* the rest as typed, equals no known name exactly.
C5_CreationSetFirstLetter ==
  \A a \in Attempts :
    attempts[a].pc # "idle" =>
      /\ attempts[a].posted =
           SelectSeq(attempts[a].sel, LAMBDA c :
             \A k \in 1..Len(attempts[a].known) :
               \/ Len(attempts[a].known[k].name) # Len(c.name)
               \/ attempts[a].known[k].name[1] # ToUpperCase(c.name[1])
               \/ \E j \in 2..Len(c.name) :
                    attempts[a].known[k].name[j] # c.name[j])
      /\ Len(attempts[a].requests) = Len(attempts[a].posted)

\* C5 witness: with "Tools" and "garden" known, a call with "TOOLS" and
\* "Garden" selected issued a creation request for each.
C5_Witness ==
  \E a \in Attempts :
    /\ attempts[a].known # <<>>
    /\ Len(attempts[a].sel) = 2
    /\ attempts[a].sel[1].name = NameToolsUpper
    /\ Len(attempts[a].requests) = 2

\* C6: the verdict of validateForm is the message of the lowest-numbered
\* violated rule of the fixed order 1..7.
C6_FirstViolatedRule ==
  \A a \in Attempts :
    (props.form = "categories" /\ Validated(attempts[a])) =>
      attempts[a].verdict = SpecFirstFailure(attempts[a].formData, attempts[a].sel)

\* C7: when a creation request of a call fails, every request of the batch
\* was issued, the rules run only once all of them have settled and do run
\* then, and a Draft that passes goes on to its listing write.
C7_CreationFailureDoesNotAbort ==
  \A a \in Attempts :
    SomeCreationFailed(attempts[a]) =>
      /\ Len(attempts[a].requests) = Len(NewCategories(attempts[a].sel, attempts[a].known))
      /\ Validated(attempts[a]) <=> ~SomeCreationPending(attempts[a])
      /\ (attempts[a].verdict = Pass /\ ListingWrite(props) # "none")
           => WriteIssued(attempts[a])

\* C7 witness: a listing write issued by a call one of whose two creation
\* requests failed and the other succeeded.
C7_Witness ==
  \E a \in Attempts :
    /\ WriteIssued(attempts[a])
    /\ Len(attempts[a].requests) = 2
    /\ SomeCreationFailed(attempts[a])
    /\ \E i \in 1..2 : attempts[a].requests[i] = "ok"

\* C8: when the listing write of a call comes back, the status message is
\* the returned message, green for success and red otherwise, or "An
\* unexpected error has occurred" in red for a rejected write; in both
\* forms and for both postListing and editListing.
C8_MessageFollowsWrite ==
  [][\A a \in Attempts :
       (attempts[a].result.settled = "no" /\ attempts'[a].result.settled # "no") =>
         message' =
           IF attempts'[a].result.settled = "rejected"
             THEN [message |-> MsgUnexpected, color |-> "red"]
           ELSE [message |-> attempts'[a].result.message,
                 color |-> IF attempts'[a].result.success THEN "green" ELSE "red"]
    ]_vars

\* The call ended in Failed.
Failed(att) == att.pc = "done" /\ (RuleFailed(att) \/ WriteFailed(att))

C10_MessageOnlyAfterLatestEdit ==
  [][ /\ edits' # edits => message' = NoMessage
      /\ (props.form = "categories" /\ edits' = edits /\ message' # message) =>
           \E a \in Attempts :
             /\ attempts[a].pc # "done"
             /\ attempts'[a].pc = "done"
             /\ attempts'[a].live
    ]_vars

\* C11: a call of validateForm never ends silently: in the step that ends
\* it the status message becomes the non-empty message that call produced,
\* red with the failed rule, red with the failure of its listing write, or
\* green with the success of its listing write; also when method is
\* neither "POST" nor "PUT".
C11_NoSilentEnd ==
  [][\A a \in Attempts :
       (attempts[a].pc # "done" /\ attempts'[a].pc = "done") =>
         LET att == attempts'[a] IN
           /\ message'.message # ""
           /\ \/ RuleFailed(att) /\ message' = Red(att.verdict)
              \/ WriteFailed(att) /\ message'.color = "red"
              \/ /\ att.result.settled = "resolved"
                 /\ att.result.success
                 /\ message'.color = "green"
    ]_vars

\* ---------------------------------------------------------------------
\* One call of validateForm on any Draft.

\* Price strings of further shapes: a fraction, a sign, an exponent,
\* surrounding white space, a hexadecimal integer, Infinity, a numeral
\* followed by a letter.
PriceInputs ==
  Prices \cup
    { <<"4",".","5">>, <<"-","1">>, <<"1","e","3">>, <<" ","4","2"," ">>,
      <<"0","x","1","A">>, InfinityLiteral, <<"4","a">> }

\* The Drafts a user can have typed when Submit is clicked.
Drafts ==
  { [title |-> t, price |-> p, description |-> d, image |-> i,
     owner |-> "user1", categories |-> <<>>] :
      t \in Titles, p \in PriceInputs, d \in Descriptions, i \in Images }

\* A form holding any Draft and any selection, its categories fetched,
\* Submit not clicked.
InitValidator ==
  /\ props \in PropsChoices
  /\ formData \in Drafts
  /\ selectedCategories \in
       IF props.form = "categories" THEN Selections ELSE {<<>>}
  /\ categories \in IF props.form = "categories" THEN CategoryResponses ELSE {<<>>}
  /\ fetchState = IF props.form = "categories" THEN "done" ELSE "none"
  /\ message = NoMessage
  /\ modal = NoModal
  /\ attempts = [a \in Attempts |-> NoAttempt]
  /\ edits = 0
  /\ categoryProducts = NoCategoryProducts

\* Submit was not clicked yet.
NoCallYet == \A a \in Calls : attempts[a].pc = "idle"

\* The first click on Submit, in either form.
FirstValidateForm == NoCallYet /\ ValidateForm

FirstValidateFormPlain == NoCallYet /\ ValidateFormPlain

NextValidator ==
  \/ FirstValidateForm
  \/ FirstValidateFormPlain
  \/ \E a \in Calls : \E i \in 1..Len(attempts[a].requests) :
       \E outcome \in CreationOutcomes : PostCategorySettle(a, i, outcome)
  \/ \E a \in Calls : \E result \in WriteResults : ListingSettle(a, result)

SpecValidator == InitValidator /\ [][NextValidator]_vars

\* C12: in both forms a call on a Draft with an empty title, price,
\* description or image sets the red message "Please fill in all fields",
\* whatever the other fields and the selection are, and issues no listing
\* write.
C12_EmptyFieldFillAll ==
  \A a \in Attempts :
    (Validated(attempts[a]) /\ ~FieldsFilled(attempts[a].formData)) =>
      /\ attempts[a].verdict = MsgFillAll
      /\ message = Red(MsgFillAll)
      /\ ~WriteIssued(attempts[a])
      /\ attempts[a].pc = "done"

\* C12 witness: a call rejected for its empty image alone, with two
\* categories selected and every other field valid.
C12_Witness ==
  \E a \in Attempts :
    /\ attempts[a].pc = "done"
    /\ attempts[a].verdict = MsgFillAll
    /\ attempts[a].formData.image = ""
    /\ attempts[a].formData.title = TitleBike
    /\ attempts[a].formData.price = <<"4","2">>
    /\ Len(attempts[a].formData.description) = MinDescription
    /\ Len(attempts[a].sel) = 2

\* The fields of fd satisfy the rules on price, image, description and
\* title.
FieldsValid(fd) ==
  /\ FieldsFilled(fd)
  /\ ~IsNaNNumber(fd.price)
  /\ ImageRuleHolds(fd.image)
  /\ Len(fd.description) >= MinDescription
  /\ Len(fd.description) <= MaxDescription
  /\ \E i \in 1..Len(UpperCase) : fd.title[1] = UpperCase[i]
  /\ Len(fd.title) <= MaxTitle

\* C13: in the form with categories a call on a Draft with filled fields
\* and no selected category sets the red message "Please select at least
\* one category", issues no creation request and no listing write.
C13_NoCategorySelected ==
  \A a \in Attempts :
    ( /\ props.form = "categories"
      /\ Validated(attempts[a])
      /\ FieldsFilled(attempts[a].formData)
      /\ attempts[a].sel = <<>> ) =>
      /\ attempts[a].verdict = MsgSelectCategory
      /\ message = Red(MsgSelectCategory)
      /\ attempts[a].requests = <<>>
      /\ ~WriteIssued(attempts[a])
      /\ attempts[a].pc = "done"

\* C13 witness: a call rejected for its empty selection alone.
C13_Witness ==
  \E a \in Attempts :
    /\ props.form = "categories"
    /\ attempts[a].pc = "done"
    /\ attempts[a].sel = <<>>
    /\ FieldsValid(attempts[a].formData)
    /\ attempts[a].verdict = MsgSelectCategory

\* The price string holds a numeral: trimmed, it is a decimal literal or a
\* hexadecimal, octal or binary integer literal.
ParsesAsNumber(price) ==
  LET t == Trim(price)
  IN  t # <<>> /\ (IsStrDecimalLiteral(t) \/ IsNonDecimalIntegerLiteral(t))

\* C14: in the form with categories, with filled fields and a selected
\* category, a call is rejected with "Price must be a number" exactly when
\* its price string does not parse as a number.
C14_PriceRule ==
  \A a \in Attempts :
    ( /\ props.form = "categories"
      /\ Validated(attempts[a])
      /\ FieldsFilled(attempts[a].formData)
      /\ attempts[a].sel # <<>> ) =>
      (attempts[a].verdict = MsgPriceNumber
         <=> ~ParsesAsNumber(attempts[a].formData.price))

\* The rules before the description rule hold for the call.
EarlierThanDescription(att) ==
  /\ FieldsFilled(att.formData)
  /\ att.sel # <<>>
  /\ ~IsNaNNumber(att.formData.price)
  /\ ImageRuleHolds(att.formData.image)

\* C15: in the form with categories, with the earlier rules satisfied, a
\* description of 1..9 characters is rejected with "Description must be at
\* least 10 characters", one of 151 or more with "Description must be less
\* than 150 characters", and one of 10..150 passes the description rule.
C15_DescriptionRule ==
  \A a \in Attempts :
    ( /\ props.form = "categories"
      /\ Validated(attempts[a])
      /\ EarlierThanDescription(attempts[a]) ) =>
      LET n == Len(attempts[a].formData.description) IN
        /\ n < MinDescription => attempts[a].verdict = MsgDescriptionShort
        /\ n > MaxDescription => attempts[a].verdict = MsgDescriptionLong
        /\ (n >= MinDescription /\ n <= MaxDescription) =>
             attempts[a].verdict \notin {MsgDescriptionShort, MsgDescriptionLong}

\* C15 witness: a description of 150 characters passed and the listing
\* write was issued.
C15_Witness ==
  \E a \in Attempts :
    /\ props.form = "categories"
    /\ EarlierThanDescription(attempts[a])
    /\ Len(attempts[a].formData.description) = MaxDescription
    /\ attempts[a].verdict = Pass
    /\ WriteIssued(attempts[a])

\* C16: in the form with categories, with the earlier rules satisfied, a
\* call is rejected with "Title must start with a capital letter" exactly
\* when the first character of its title is not an uppercase letter.
C16_CapitalizationRule ==
  \A a \in Attempts :
    ( /\ props.form = "categories"
      /\ Validated(attempts[a])
      /\ EarlierThanDescription(attempts[a])
      /\ ParsesAsNumber(attempts[a].formData.price)
      /\ Len(attempts[a].formData.description) >= MinDescription
      /\ Len(attempts[a].formData.description) <= MaxDescription ) =>
      (attempts[a].verdict = MsgTitleCapital
         <=> ~\E i \in 1..Len(UpperCase) :
                attempts[a].formData.title[1] = UpperCase[i])

\* ---------------------------------------------------------------------
\* A submit and a resubmit: two calls of validateForm on one form.

SubmitAndResubmit == 1..2

\* A mounted form whose selection was made and stays as it is.
InitResubmit ==
  /\ props \in PropsChoices
  /\ formData \in InitialFormData
  /\ selectedCategories \in
       IF props.form = "categories" THEN Selections ELSE {<<>>}
  /\ categories = <<>>
  /\ fetchState = IF props.form = "categories" THEN "pending" ELSE "none"
  /\ message = NoMessage
  /\ modal = NoModal
  /\ attempts = [a \in SubmitAndResubmit |-> NoAttempt]
  /\ edits = 0
  /\ categoryProducts = NoCategoryProducts

NextResubmit ==
  \/ FetchCategoriesSettle
  \/ ValidateForm
  \/ ValidateFormPlain
  \/ \E a \in Calls : \E i \in 1..Len(attempts[a].requests) :
       \E outcome \in CreationOutcomes : PostCategorySettle(a, i, outcome)
  \/ \E a \in Calls : \E result \in WriteResults : ListingSettle(a, result)

SpecResubmit == InitResubmit /\ [][NextResubmit]_vars

\* The call was made: Submit was clicked for it.
Started(att) == att.pc # "idle"

\* C17: two calls of validateForm with the same selection, the first one
\* made once the categories fetch had settled, run the Reconciler on the
\* same KnownCategories and issue creation requests for the same
\* categories: the creations of the first call, successful or not, leave
\* the categories held by the form as the fetch left them.
C17_ResubmitReissues ==
  /\ categories \in {<<>>} \cup CategoryResponses
  /\ \A a, b \in Calls :
       ( /\ a < b
         /\ Started(attempts[a])
         /\ Started(attempts[b])
         /\ attempts[a].sel = attempts[b].sel
         /\ (attempts[a].known # <<>> \/ fetchState = "failed") ) =>
         /\ attempts[b].known = attempts[a].known
         /\ attempts[b].posted = attempts[a].posted
         /\ Len(attempts[b].requests) = Len(attempts[a].posted)

\* C17 witness: the first call created both of its categories, and the
\* second call, on the same selection, asked for both again.
C17_Witness ==
  /\ Started(attempts[1])
  /\ Started(attempts[2])
  /\ attempts[1].known # <<>>
  /\ Len(attempts[1].requests) = 2
  /\ \A i \in 1..2 : attempts[1].requests[i] = "ok"
  /\ attempts[1].pc = "done"
  /\ attempts[2].sel = attempts[1].sel
  /\ attempts[2].posted = attempts[1].posted
  /\ Len(attempts[2].requests) = 2

\* The listing writes in flight.
WritesInFlight == {a \in Calls : attempts[a].pc = "submitting"}

\* C19: in the form with categories a call that passes validation issues
\* the one listing write its method names, postListing for "POST" and
\* editListing for "PUT", and at most one listing write is in flight at
\* any time: a second click on Submit during an earlier call starts no
\* second write.
C19_OneWriteInFlight ==
  props.form = "categories" =>
    /\ \A a \in Calls :
         /\ attempts[a].write = "post" => props.method = "POST"
         /\ attempts[a].write = "edit" => props.method = "PUT"
         /\ (attempts[a].verdict = Pass /\ props.method = "POST") =>
              attempts[a].write = "post"
         /\ (attempts[a].verdict = Pass /\ props.method = "PUT") =>
              attempts[a].write = "edit"
    /\ Cardinality(WritesInFlight) <= 1

\* C18: while the categories fetch of the mount is pending, and after it
\* failed, the form knows no category; a call made then posts a creation
\* request for every selected category, the ones the backend already has
\* included, and a call skips a selected category only when the fetch had
\* succeeded before it was made.
C18_EverythingCreatedUnlessFetched ==
  /\ fetchState \in {"pending", "failed"} => categories = <<>>
  /\ \A a \in Attempts :
       Started(attempts[a]) =>
         /\ fetchState \in {"pending", "failed"} => attempts[a].known = <<>>
         /\ attempts[a].known = <<>> =>
              /\ attempts[a].posted = attempts[a].sel
              /\ Len(attempts[a].requests) = Len(attempts[a].sel)
         /\ attempts[a].posted # attempts[a].sel =>
              fetchState = "done" /\ attempts[a].known \in CategoryResponses

\* C18 witness: a call made before the fetch settled asked for the creation
\* of "tools" and "Garden", which the backend has as "Tools" and "garden".
C18_Witness ==
  \E a \in Attempts :
    /\ fetchState = "pending"
    /\ Len(attempts[a].requests) = 2
    /\ attempts[a].known = <<>>
    /\ attempts[a].posted = attempts[a].sel
    /\ attempts[a].sel[1].name = NameToolsLower
    /\ \E r \in CategoryResponses : r[1].name = NameTools

\* ---------------------------------------------------------------------
\* The CategoryProducts page: its effect, its two fetches, its render.

\* The variables of the listing form.
formVars ==
  <<props, formData, selectedCategories, categories, fetchState, message,
    modal, attempts, edits>>

\* How a fetch followed by response.json() may end.
FetchOutcomes == {"json", "throws"}

\* useEffect(() => { setIsLoading(true); fetchProducts(); fetchCategoryName() }, [])
MountCategoryProducts ==
  /\ categoryProducts.route = "category"
  /\ ~categoryProducts.mounted
  /\ categoryProducts' =
       [categoryProducts EXCEPT !.mounted = TRUE, !.isLoading = TRUE,
                                !.productsFetch = "pending",
                                !.nameFetch = "pending"]
  /\ UNCHANGED formVars

\* fetchProducts from its await on: setProducts(data), or setIsError(true)
\* in the catch, then setIsLoading(false); a component that was left keeps
\* its state.
FetchProductsSettle(outcome, body) ==
  /\ categoryProducts.productsFetch = "pending"
  /\ categoryProducts' =
       IF categoryProducts.route # "category"
         THEN [categoryProducts EXCEPT !.productsFetch = "settled"]
       ELSE IF outcome = "json"
         THEN [categoryProducts EXCEPT !.productsFetch = "settled",
                                       !.products = body,
                                       !.isLoading = FALSE]
       ELSE [categoryProducts EXCEPT !.productsFetch = "settled",
                                     !.isError = TRUE,
                                     !.isLoading = FALSE]
  /\ UNCHANGED formVars

\* fetchCategoryName from its await on: setCategoryName(data.name), or
\* setIsError(true) in the catch, then setIsLoading(false).
FetchCategoryNameSettle(outcome) ==
  /\ categoryProducts.nameFetch = "pending"
  /\ categoryProducts' =
       IF categoryProducts.route # "category"
         THEN [categoryProducts EXCEPT !.nameFetch = "settled"]
       ELSE IF outcome = "json"
         THEN [categoryProducts EXCEPT
                 !.nameFetch = "settled",
                 !.categoryName = CategoryNameOf(categoryProducts.category_id),
                 !.isLoading = FALSE]
       ELSE [categoryProducts EXCEPT !.nameFetch = "settled",
                                     !.isError = TRUE,
                                     !.isLoading = FALSE]
  /\ UNCHANGED formVars

\* The content variable of the render: "isError ?? (...)" never assigns,
\* isError being a boolean; the object of an error answer has no length.
Content(page) ==
  IF page.isError THEN "nothing"
  ELSE IF ~page.products.isArray THEN "nothing"
  ELSE IF Len(page.products.items) = 0 THEN "No products found"
  ELSE "products"

\* What the page shows under its heading.
Displayed(page) ==
  IF page.route # "category" THEN "another page"
  ELSE IF page.isLoading THEN "Loader"
  ELSE Content(page)

\* The button under "No products found".
ClickPostFirstListing ==
  /\ Displayed(categoryProducts) = "No products found"
  /\ categoryProducts' =
       [categoryProducts EXCEPT
          !.route = IF categoryProducts.isLoggedIn THEN "/create-listing"
                    ELSE "/login"]
  /\ UNCHANGED formVars

InitCategoryProducts ==
  /\ categoryProducts \in
       {FirstRender(id, loggedIn) : id \in CategoryIds, loggedIn \in BOOLEAN}
  /\ props = [form |-> "plain", method |-> "POST",
              postListing |-> TRUE, editListing |-> FALSE]
  /\ formData = EmptyFormData
  /\ selectedCategories = <<>>
  /\ categories = <<>>
  /\ fetchState = "none"
  /\ message = NoMessage
  /\ modal = NoModal
  /\ attempts = [a \in Attempts |-> NoAttempt]
  /\ edits = 0

NextCategoryProducts ==
  \/ MountCategoryProducts
  \/ \E outcome \in FetchOutcomes : \E body \in ProductsBodies :
       FetchProductsSettle(outcome, body)
  \/ \E outcome \in FetchOutcomes : FetchCategoryNameSettle(outcome)
  \/ ClickPostFirstListing

SpecCategoryProducts == InitCategoryProducts /\ [][NextCategoryProducts]_vars

\* C20: once the effect of CategoryProducts ran, isLoading is true while
\* either of its two fetches is in flight, so "No products found" is not
\* shown while the products fetch is; and isLoading is false once both
\* have settled.
C20_LoadingUntilBothSettled ==
  (categoryProducts.mounted /\ categoryProducts.route = "category") =>
    LET inFlight == {categoryProducts.productsFetch,
                     categoryProducts.nameFetch} \cap {"pending"}
    IN  /\ inFlight # {} => categoryProducts.isLoading
        /\ categoryProducts.productsFetch = "pending" =>
             Displayed(categoryProducts) # "No products found"
        /\ inFlight = {} => ~categoryProducts.isLoading

====
